---- MODULE Spec2Model ----
(***************************************************************************)
(* Command lifecycle and dispatch of GoldyBot (goldy/commands/__init__.py). *)
(* Strings are sequences of characters; a command object is an identity in *)
(* Cmds; every await of a remote call is a suspension point, the code      *)
(* between two awaits is one atomic step of the event loop.                *)
(***************************************************************************)
EXTENDS Integers, Sequences, FiniteSets, TLC

\* ------------------------------------------------------------------ bounds
MaxCalls == 3       \* lifecycle calls (load, unload, delete) in one run
DispatchCalls == 1  \* lifecycle calls in a run of SpecDispatch
MaxSubs == 2        \* subscriptions of one callback per event class
MaxLen == 3         \* length of a message text
InFlightCalls == 2  \* loads in a run of SpecInFlight
MaxTasks == 2       \* invocation tasks the loop holds in a run of SpecInFlight
MaxArgs == 3        \* arguments a command executer supplies
MaxStops == 2       \* calls of stop() from the loop, and pending "critical" tasks

\* ---------------------------------------------------------- the environment
Cmds == {"c1", "c2"}        \* the command objects that may be constructed
Chars == {"!", "p"}
Names == {<<"p">>}           \* the names a caller passes; the callbacks bring "p" and "pp"

\* goldy.json, key goldy.allowed_guilds: (guild id, code name) in file order,
\* with the template entry the generated file carries.
goldy_json_allowed_guilds ==
    << <<"{guild_id_here}", "{guild_code_name_here}">>, <<"g1", "one">>, <<"g2", "two">> >>

IsNotTemplate(e) == e[1] # "{guild_id_here}"

\* GoldyConfig.allowed_guilds: the entries of the file without the template.
config_allowed_guilds == SelectSeq(goldy_json_allowed_guilds, IsNotTemplate)

\* goldy.guilds.allowed_guilds: the guild registry lists the configured guilds.
allowed_guilds == config_allowed_guilds

\* guild ids an event may carry; "g3" is a guild that is not allowed, Missing
\* is a payload without the guild_id key (a direct message or interaction).
Missing == "Missing"
GuildIds == {"g1", "g2", "g3"}
\* the prefix the guild registry holds for a guild.
GuildPrefix(g) == IF g = "g1" THEN <<"!">> ELSE <<"!", "!">>

\* The callbacks a Command may wrap: a plain coroutine and an extension method.
Funcs ==
    { [__name__ |-> <<"p">>, co_varnames |-> <<"platter">>, co_argcount |-> 1],
      [__name__ |-> <<"p", "p">>, co_varnames |-> <<"self", "platter", "arg">>,
       co_argcount |-> 3] }

\* A callback with a local variable: co_varnames lists it after the parameters.
FuncsWithLocals ==
    { [__name__ |-> <<"p">>, co_varnames |-> <<"platter", "arg", "x">>, co_argcount |-> 2] }

VARIABLES
    commands_cache,   \* the Command Registry: sequence of <<name, command>>
    cmds,             \* constructed command object -> its fields
    listeners,        \* event dispatcher: event name -> sequence of callbacks
    remote,           \* guild application commands that exist on Discord
    ext_commands,     \* commands the owning extension tracks
    op,               \* command -> the lifecycle coroutine suspended on it
    calls,            \* lifecycle calls made so far
    result,           \* command -> how its last finished lifecycle call ended
    reqlog,           \* command -> remote requests issued by its current/last call
    tasks,            \* the invocation tasks of the loop, in creation order
    args_check,       \* the last call of any_args_missing and what it returned
    main,             \* Goldy.start() on the main thread
    pc,               \* the step of __start_async / __stop_async that is next
    phase,            \* whether that coroutine is ready, awaiting, done or failed
    steps,            \* the steps begun and ended so far, in order
    critical,         \* tasks created to dispatch "critical", in creation order
    error,            \* what wait_for(..., "critical") returned
    live_console,     \* the console thread and its __stop flag
    stop_calls,       \* calls of Goldy.stop() so far
    extensions_cache, \* the Extension Registry: sequence of <<code name, extension>>
    reloads           \* the last call of extension_reloader.reload by the console

commandVars == <<commands_cache, cmds, listeners, remote, ext_commands, op, calls,
                 result, reqlog, tasks>>

dispatchVars == <<tasks>>

argsVars == <<args_check>>

coreVars == <<main, pc, phase, steps, critical, error, live_console, stop_calls,
              extensions_cache, reloads>>

vars == <<commandVars, argsVars, coreVars>>

EventNames == {"MESSAGE_CREATE", "INTERACTION_CREATE"}
PREFIX_CMD == "PREFIX_CMD"
SLASH_CMD == "SLASH_CMD"

\* What a lifecycle call finds when it is called: the command's own state.
NoBefore == [loaded |-> FALSE, data |-> <<>>, slash_subs |-> 0, normal_subs |-> 0]
NoPrev == [kind |-> "none", outcome |-> "none"]
Idle == [kind |-> "idle", i |-> 0, acc |-> <<>>, before |-> NoBefore, prev |-> NoPrev]
NoResult == [kind |-> "none", outcome |-> "none", before |-> NoBefore, prev |-> NoPrev]
\* An optional value: <<>> is Python's None, <<v>> is the value v.
NoneOpt == <<>>
Some(v) == <<v>>

\* No call of any_args_missing yet; no reload by the console yet.
NoCheck == [cmd |-> "none", args |-> <<>>, returned |-> FALSE]
NoReload == [input |-> "none", extension |-> NoneOpt]

\* ------------------------------------------------------- helpers (pure)
\* [x[0] for x in allowed_guilds]
AllowedGuildIds == {config_allowed_guilds[i][1] : i \in DOMAIN config_allowed_guilds}

Contains(s, x) == \E i \in DOMAIN s : s[i] = x

Count(s, x) == Cardinality({i \in DOMAIN s : s[i] = x})

\* list.remove(x): drops the first occurrence; the caller checks Contains first.
RemoveFirst(s, x) ==
    LET i == CHOOSE k \in DOMAIN s : s[k] = x /\ \A j \in 1..(k - 1) : s[j] # x
    IN  SubSeq(s, 1, i - 1) \o SubSeq(s, i + 1, Len(s))

\* The two closures a Command builds in __init__.
slash_callback(c) == [cmd |-> c, type |-> SLASH_CMD]
normal_callback(c) == [cmd |-> c, type |-> PREFIX_CMD]

\* event_dispatcher.add_listener / remove_listener
add_listener(L, cb, ev) == [L EXCEPT ![ev] = Append(@, cb)]
remove_listener(L, cb, ev) == [L EXCEPT ![ev] = RemoveFirst(@, cb)]

\* Discord keys a guild command by (guild, name): creating it again overwrites.
RemoteCmd(g, name) == [id |-> <<g, name>>]

Constructed == DOMAIN cmds

\* ------------------------------------------------------------------- Init
Init ==
    /\ commands_cache = <<>>
    /\ cmds = <<>>
    /\ listeners = [e \in EventNames |-> <<>>]
    /\ remote = {}
    /\ ext_commands = {}
    /\ op = [c \in Cmds |-> Idle]
    /\ calls = 0
    /\ result = [c \in Cmds |-> NoResult]
    /\ reqlog = [c \in Cmds |-> <<>>]
    /\ tasks = <<>>
    /\ args_check = NoCheck
    /\ main = "init"
    /\ pc = 1
    /\ phase = "ready"
    /\ steps = <<>>
    /\ critical = <<>>
    /\ error = NoneOpt
    /\ live_console = [started |-> FALSE, stop |-> FALSE, exited |-> FALSE]
    /\ stop_calls = 0
    /\ extensions_cache = <<>>
    /\ reloads = NoReload

\* --------------------------------------------------------- Command.__init__
Construct(c, func, name, allow_prefix_cmd, allow_slash_cmd, parent_cmd) ==
    LET nm == IF name = NoneOpt THEN func.__name__ ELSE name[1]
        in_ext == func.co_varnames[1] = "self"
    IN
    /\ c \notin Constructed
    /\ cmds' = [x \in Constructed \cup {c} |->
                  IF x # c THEN cmds[x] ELSE
                  [ name |-> nm,
                    allow_prefix_cmd |-> allow_prefix_cmd,
                    allow_slash_cmd |-> allow_slash_cmd,
                    parent_cmd |-> parent_cmd,
                    params |-> IF in_ext THEN Tail(func.co_varnames)
                               ELSE func.co_varnames,
                    params_amount |-> IF in_ext THEN func.co_argcount - 1
                                      ELSE func.co_argcount,
                    in_extension |-> in_ext,
                    list_of_application_command_data |-> NoneOpt,
                    loaded |-> FALSE ]]
    /\ commands_cache' = Append(commands_cache, <<nm, c>>)
    /\ UNCHANGED <<listeners, remote, ext_commands, op, calls, result, reqlog>>
    /\ UNCHANGED <<dispatchVars, argsVars, coreVars>>

\* ------------------------------------------------- lifecycle bookkeeping
SlashSubs(c) == Count(listeners["INTERACTION_CREATE"], slash_callback(c))
NormalSubs(c) == Count(listeners["MESSAGE_CREATE"], normal_callback(c))

Before(c) ==
    [ loaded |-> cmds[c].loaded,
      data |-> cmds[c].list_of_application_command_data,
      slash_subs |-> SlashSubs(c),
      normal_subs |-> NormalSubs(c) ]

\* The coroutine of a call of `kind` on c that is being called now.
Called(c, kind, i) ==
    [ kind |-> kind, i |-> i, acc |-> <<>>, before |-> Before(c),
      prev |-> [kind |-> result[c].kind, outcome |-> result[c].outcome] ]

\* How the call `o` ends: "returned", or the error it raises to its caller.
Ended(o, outcome) ==
    [kind |-> o.kind, outcome |-> outcome, before |-> o.before, prev |-> o.prev]

\* ------------------------------------------------------------ Command.load
\* The part of load() after create_slash: runs to the end without suspending.
\* L is the listener table load() sees at that point.
LoadTail(c, o, L, data) ==
    /\ listeners' = IF cmds[c].allow_prefix_cmd
                    THEN add_listener(L, normal_callback(c), "MESSAGE_CREATE")
                    ELSE L
    /\ ext_commands' = IF cmds[c].in_extension
                       THEN ext_commands \cup {c} ELSE ext_commands
    /\ cmds' = [cmds EXCEPT ![c].loaded = TRUE,
                            ![c].list_of_application_command_data = data]
    /\ op' = [op EXCEPT ![c] = Idle]
    /\ result' = [result EXCEPT ![c] = Ended(o, "returned")]

\* Requests issued from the last guild to the first.
CreateRequestLastFirst(c, i) ==
    <<"create", allowed_guilds[Len(allowed_guilds) - i + 1][1], cmds[c].name>>

\* The create request create_slash issues for guild number i.
CreateRequest(c, i) == <<"create", allowed_guilds[i][1], cmds[c].name>>

\* load() is called: it runs up to the first remote create request, or, when
\* slash commands are not allowed, to its end.
LoadBegin(c) ==
    /\ c \in Constructed
    /\ op[c].kind = "idle"
    /\ calls < MaxCalls
    /\ calls' = calls + 1
    /\ SlashSubs(c) < MaxSubs
    /\ NormalSubs(c) < MaxSubs
    /\ IF cmds[c].allow_slash_cmd /\ Len(allowed_guilds) > 0
       THEN /\ op' = [op EXCEPT ![c] = Called(c, "load", 1)]
            /\ reqlog' = [reqlog EXCEPT ![c] = <<CreateRequest(c, 1)>>]
            /\ UNCHANGED <<cmds, listeners, ext_commands, result>>
       ELSE /\ LoadTail(c, Called(c, "load", 0),
                  IF cmds[c].allow_slash_cmd
                  THEN add_listener(listeners, slash_callback(c), "INTERACTION_CREATE")
                  ELSE listeners,
                  IF cmds[c].allow_slash_cmd
                  THEN Some(<<>>) ELSE cmds[c].list_of_application_command_data)
            /\ reqlog' = [reqlog EXCEPT ![c] = <<>>]
    /\ UNCHANGED <<commands_cache, remote>>
    /\ UNCHANGED <<dispatchVars, argsVars, coreVars>>

\* A slip create_slash could make: appending to the command's own list.
HandlesOnSelf(c, acc) ==
    [cmds EXCEPT ![c].list_of_application_command_data = Some(acc)]

\* The command's fields while create_slash is still in its loop: the handles
\* gathered so far, acc, are in a local list, the fields are untouched.
HandlesKeptLocal(c, acc) == cmds

\* create_guild_application_command answers for guild number op[c].i.
RemoteCreateDone(c, ok) ==
    LET i == op[c].i
        g == allowed_guilds[i][1]
        acc == Append(op[c].acc, <<g, RemoteCmd(g, cmds[c].name)>>)
    IN
    /\ op[c].kind = "load"
    /\ IF ~ok
       THEN \* the error leaves create_slash and load
            /\ op' = [op EXCEPT ![c] = Idle]
            /\ result' = [result EXCEPT ![c] = Ended(op[c], "RemoteError")]
            /\ UNCHANGED <<cmds, listeners, ext_commands, remote, reqlog>>
       ELSE /\ remote' = remote \cup {RemoteCmd(g, cmds[c].name).id}
            /\ IF i < Len(allowed_guilds)
               THEN /\ op' = [op EXCEPT ![c].i = i + 1, ![c].acc = acc]
                    /\ reqlog' = [reqlog EXCEPT ![c] =
                                    Append(@, CreateRequest(c, i + 1))]
                    /\ cmds' = HandlesKeptLocal(c, acc)
                    /\ UNCHANGED <<listeners, ext_commands, result>>
               ELSE /\ LoadTail(c, op[c],
                          add_listener(listeners, slash_callback(c),
                                       "INTERACTION_CREATE"),
                          Some(acc))
                    /\ UNCHANGED reqlog
    /\ UNCHANGED <<commands_cache, calls>>
    /\ UNCHANGED <<dispatchVars, argsVars, coreVars>>

\* ---------------------------------------------- Command.unload and .delete
DeleteRequest(c, i) ==
    LET h == cmds[c].list_of_application_command_data[1][i]
    IN  <<"delete", h[1], h[2].id>>

\* A registry removal that ignores a missing pair.
RemoveIfPresent(cache, pair) == "returned"

\* commands_cache.remove(pair): list.remove raises ValueError on a missing pair.
CacheRemoveOutcome(cache, pair) ==
    IF Contains(cache, pair) THEN "returned" ELSE "ValueError: cache"

\* The part of unload() after the remote deletions: remove_listener for the
\* slash callback, remove_normal, loaded = False and, inside delete(), the
\* removal from the registry. An error ends it where it is raised.
UnloadTail(c, o) ==
    LET cmd == cmds[c]
        kind == o.kind
        slashOK == ~cmd.allow_slash_cmd
                     \/ Contains(listeners["INTERACTION_CREATE"], slash_callback(c))
        L1 == IF cmd.allow_slash_cmd /\ slashOK
              THEN remove_listener(listeners, slash_callback(c), "INTERACTION_CREATE")
              ELSE listeners
        normalOK == ~cmd.allow_prefix_cmd
                      \/ Contains(L1["MESSAGE_CREATE"], normal_callback(c))
        L2 == IF cmd.allow_prefix_cmd /\ normalOK
              THEN remove_listener(L1, normal_callback(c), "MESSAGE_CREATE")
              ELSE L1
        unloaded == slashOK /\ normalOK
        inCache == Contains(commands_cache, <<cmd.name, c>>)
    IN
    /\ listeners' = IF slashOK THEN L2 ELSE listeners
    /\ cmds' = IF unloaded THEN [cmds EXCEPT ![c].loaded = FALSE] ELSE cmds
    /\ commands_cache' = IF unloaded /\ kind = "delete" /\ inCache
                         THEN RemoveFirst(commands_cache, <<cmd.name, c>>)
                         ELSE commands_cache
    /\ op' = [op EXCEPT ![c] = Idle]
    /\ result' = [result EXCEPT ![c] =
                    Ended(o, IF ~unloaded THEN "ValueError: listener"
                             ELSE IF kind = "delete"
                                  THEN CacheRemoveOutcome(commands_cache, <<cmd.name, c>>)
                                  ELSE "returned")]

\* unload() (kind "unload") or delete() (kind "delete", which first awaits
\* unload()) is called and runs up to its first remote delete request, or to
\* its end.
UnloadBegin(c, kind) ==
    LET data == cmds[c].list_of_application_command_data
    IN
    /\ c \in Constructed
    /\ op[c].kind = "idle"
    /\ calls < MaxCalls
    /\ calls' = calls + 1
    /\ IF cmds[c].allow_slash_cmd /\ data = NoneOpt
       THEN \* for ... in None
            /\ result' = [result EXCEPT ![c] =
                            Ended(Called(c, kind, 0), "TypeError")]
            /\ reqlog' = [reqlog EXCEPT ![c] = <<>>]
            /\ UNCHANGED <<cmds, listeners, commands_cache, op>>
       ELSE IF cmds[c].allow_slash_cmd /\ Len(data[1]) > 0
       THEN /\ op' = [op EXCEPT ![c] = Called(c, kind, 1)]
            /\ reqlog' = [reqlog EXCEPT ![c] = <<DeleteRequest(c, 1)>>]
            /\ UNCHANGED <<cmds, listeners, commands_cache, result>>
       ELSE /\ UnloadTail(c, Called(c, kind, 0))
            /\ reqlog' = [reqlog EXCEPT ![c] = <<>>]
    /\ UNCHANGED <<remote, ext_commands>>
    /\ UNCHANGED <<dispatchVars, argsVars, coreVars>>

Unload(c) == UnloadBegin(c, "unload")

Delete(c) == UnloadBegin(c, "delete")

\* An unload that clears loaded as soon as the first deletion succeeded.
UnloadedEarly(c, i) == [cmds EXCEPT ![c].loaded = FALSE]

\* The command's fields while remove_slash is still in its loop: handle i has
\* been deleted on Discord, the fields are untouched.
HandlesStillRecorded(c, i) == cmds

\* delete_guild_application_command answers for handle number op[c].i; it
\* can only succeed for a command that exists on Discord.
RemoteDeleteDone(c, ok) ==
    LET i == op[c].i
        data == cmds[c].list_of_application_command_data[1]
    IN
    /\ op[c].kind \in {"unload", "delete"}
    /\ ok => data[i][2].id \in remote
    /\ IF ~ok
       THEN /\ op' = [op EXCEPT ![c] = Idle]
            /\ result' = [result EXCEPT ![c] = Ended(op[c], "RemoteError")]
            /\ UNCHANGED <<cmds, listeners, commands_cache, remote, reqlog>>
       ELSE /\ remote' = remote \ {data[i][2].id}
            /\ IF i < Len(data)
               THEN /\ op' = [op EXCEPT ![c].i = i + 1]
                    /\ reqlog' = [reqlog EXCEPT ![c] =
                                    Append(@, DeleteRequest(c, i + 1))]
                    /\ cmds' = HandlesStillRecorded(c, i)
                    /\ UNCHANGED <<listeners, commands_cache, result>>
               ELSE /\ UnloadTail(c, op[c])
                    /\ UNCHANGED reqlog
    /\ UNCHANGED <<ext_commands, calls>>
    /\ UNCHANGED <<dispatchVars, argsVars, coreVars>>

\* ------------------------------------------------------------- dispatch
Contents == UNION {[1..n -> Chars] : n \in 0..MaxLen}

MessageData ==
    [class : {"MESSAGE_CREATE"}, guild_id : GuildIds \cup {Missing}, content : Contents]

InteractionData ==
    [class : {"INTERACTION_CREATE"}, guild_id : GuildIds \cup {Missing}, content : {<<>>}]

\* A listener that awaits __invoke itself: the invocation has run up to the
\* command callback before the listener returns.
DeliverInline(data) ==
    LET L == listeners[data.class]
    IN
    /\ Len(L) > 0
    /\ tasks' = tasks \o [i \in 1..Len(L) |->
                            [cb |-> L[i], data |-> data,
                             pc |-> IF data.guild_id \in AllowedGuildIds
                                    THEN "callback" ELSE "dropped"]]
    /\ UNCHANGED <<commands_cache, cmds, listeners, remote, ext_commands, op, calls,
                   result, reqlog>>
    /\ UNCHANGED <<argsVars, coreVars>>

\* The event bus delivers an inbound event: every callback subscribed to its
\* class is called, and each schedules a task that will run __invoke.
Deliver(data) ==
    LET L == listeners[data.class]
    IN
    /\ Len(L) > 0
    /\ tasks' = tasks \o [i \in 1..Len(L) |->
                            [cb |-> L[i], data |-> data, pc |-> "scheduled"]]
    /\ UNCHANGED <<commands_cache, cmds, listeners, remote, ext_commands, op, calls,
                   result, reqlog>>
    /\ UNCHANGED <<argsVars, coreVars>>

\* A match on the start of the text only.
StartsWith(content, prefix, name) ==
    /\ Len(content) >= Len(prefix \o name)
    /\ SubSeq(content, 1, Len(prefix \o name)) = prefix \o name

\* data["content"] == f"{prefix}{self.name}"
PrefixMatches(content, prefix, name) == content = prefix \o name

\* An __invoke that runs a slash command only for an interaction that names it.
InvokeOutcomeNamed(c, type, data) ==
    IF data.guild_id = Missing THEN "KeyError"
    ELSE IF data.guild_id \notin AllowedGuildIds THEN "dropped"
    ELSE IF type = PREFIX_CMD
         THEN IF PrefixMatches(data.content, GuildPrefix(data.guild_id), cmds[c].name)
              THEN "callback" ELSE "dropped"
         ELSE IF data.content = cmds[c].name THEN "callback" ELSE "dropped"

\* __invoke up to its first await: "callback" when it reaches the command
\* callback and suspends in it, "dropped" when it returns without calling it,
\* or the error that ends the task.
InvokeOutcome(c, type, data) ==
    IF data.guild_id = Missing THEN "KeyError"
    ELSE IF data.guild_id \notin AllowedGuildIds THEN "dropped"
    ELSE IF type = PREFIX_CMD
         THEN IF PrefixMatches(data.content, GuildPrefix(data.guild_id), cmds[c].name)
              THEN "callback" ELSE "dropped"
         ELSE "callback"

Scheduled == {i \in DOMAIN tasks : tasks[i].pc = "scheduled"}

\* The loop runs the scheduled task that was created first.
RunTask ==
    /\ Scheduled # {}
    /\ LET i == CHOOSE k \in Scheduled : \A j \in Scheduled : k <= j
           t == tasks[i]
       IN  tasks' = [tasks EXCEPT ![i].pc = InvokeOutcome(t.cb.cmd, t.cb.type, t.data)]
    /\ UNCHANGED <<commands_cache, cmds, listeners, remote, ext_commands, op, calls,
                   result, reqlog>>
    /\ UNCHANGED <<argsVars, coreVars>>

\* The command callback of task i returns, and __invoke with it.
CallbackReturn(i) ==
    /\ i \in DOMAIN tasks
    /\ tasks[i].pc = "callback"
    /\ tasks' = [tasks EXCEPT ![i].pc = "returned"]
    /\ UNCHANGED <<commands_cache, cmds, listeners, remote, ext_commands, op, calls,
                   result, reqlog>>
    /\ UNCHANGED <<argsVars, coreVars>>

\* The loop lets go of the finished task i.
TaskDone(i) ==
    /\ i \in DOMAIN tasks
    /\ tasks[i].pc \in {"dropped", "returned", "KeyError"}
    /\ tasks' = SubSeq(tasks, 1, i - 1) \o SubSeq(tasks, i + 1, Len(tasks))
    /\ UNCHANGED <<commands_cache, cmds, listeners, remote, ext_commands, op, calls,
                   result, reqlog>>
    /\ UNCHANGED <<argsVars, coreVars>>

\* ------------------------------------------------- Goldy: start and stop
\* Goldy.setup: the guild registry, then the extensions, then the commands.
setup_commands_first ==
    << [name |-> "command_loader.load", await |-> TRUE],
       [name |-> "guilds.setup", await |-> TRUE],
       [name |-> "extension_loader.load", await |-> FALSE] >>

setup ==
    << [name |-> "guilds.setup", await |-> TRUE],
       [name |-> "extension_loader.load", await |-> FALSE],
       [name |-> "command_loader.load", await |-> TRUE] >>

\* Goldy.__start_async up to the wait for "critical"; await marks the steps
\* at which the coroutine suspends.
start_async ==
    << [name |-> "http_client.setup", await |-> TRUE],
       [name |-> "shard_manager.connect", await |-> TRUE],
       [name |-> "add_listener READY", await |-> FALSE],
       [name |-> "pre_setup", await |-> TRUE] >>
    \o setup \o
    << [name |-> "live_console.start", await |-> FALSE],
       [name |-> "wait_for critical", await |-> TRUE] >>

\* A shutdown that stops the loop before the transports are closed.
stop_async_loop_first ==
    << [name |-> "presence.change", await |-> TRUE],
       [name |-> "async_loop.stop", await |-> FALSE],
       [name |-> "http_client.close", await |-> TRUE],
       [name |-> "shard_manager.close", await |-> TRUE],
       [name |-> "database.client.close", await |-> FALSE] >>

\* Goldy.__stop_async, which __start_async awaits once wait_for has returned.
stop_async ==
    << [name |-> "presence.change", await |-> TRUE],
       [name |-> "http_client.close", await |-> TRUE],
       [name |-> "shard_manager.close", await |-> TRUE],
       [name |-> "database.client.close", await |-> FALSE],
       [name |-> "async_loop.stop", await |-> FALSE] >>

Program == start_async \o stop_async

WaitPc == Len(start_async)

\* The registries extension_loader.load() may leave behind.
ExtensionRegistries ==
    { <<>>,
      << <<"ext1", "E1">> >>,
      << <<"ext1", "E1">>, <<"ext2", "E2">> >> }

\* What the operator may type after "reload".
ReloadInputs == {"", "ext1", "ext2", "ext3"}

\* Goldy.start(): run_until_complete(__start_async()).
Start ==
    /\ main = "init"
    /\ main' = "running"
    /\ UNCHANGED <<pc, phase, steps, critical, error, live_console, stop_calls,
                   extensions_cache, reloads>>
    /\ UNCHANGED <<commandVars, argsVars>>

\* The coroutine reaches its next step: a plain call runs to its end, an
\* awaited call suspends the coroutine. The last step stops the loop, the
\* coroutine returns and with it run_until_complete and start().
Call ==
    LET step == Program[pc]
    IN
    /\ main = "running"
    /\ phase = "ready"
    /\ IF step.await
       THEN /\ steps' = Append(steps, <<step.name, "begin">>)
            /\ phase' = "awaiting"
            /\ UNCHANGED <<pc, main, live_console, extensions_cache>>
       ELSE /\ steps' = steps \o << <<step.name, "begin">>, <<step.name, "end">> >>
            /\ live_console' = IF step.name = "live_console.start"
                               THEN [live_console EXCEPT !.started = TRUE]
                               ELSE live_console
            /\ IF step.name = "extension_loader.load"
               THEN extensions_cache' \in ExtensionRegistries
               ELSE UNCHANGED extensions_cache
            /\ IF pc = Len(Program)
               THEN phase' = "done" /\ main' = "returned" /\ UNCHANGED pc
               ELSE pc' = pc + 1 /\ UNCHANGED <<phase, main>>
    /\ UNCHANGED <<critical, error, stop_calls, reloads>>
    /\ UNCHANGED <<commandVars, argsVars>>

\* The awaited call answers. An error it raises (UnauthorizedError from
\* connect, raised again as GoldyBotError) leaves __start_async and start().
Resume(ok) ==
    /\ main = "running"
    /\ phase = "awaiting"
    /\ pc # WaitPc
    /\ IF ok
       THEN /\ steps' = Append(steps, <<Program[pc].name, "end">>)
            /\ pc' = pc + 1
            /\ phase' = "ready"
            /\ UNCHANGED main
       ELSE /\ phase' = "failed"
            /\ main' = "raised"
            /\ UNCHANGED <<steps, pc>>
    /\ UNCHANGED <<critical, error, live_console, stop_calls, extensions_cache, reloads>>
    /\ UNCHANGED <<commandVars, argsVars>>

\* Goldy.stop(reason): stops the console and creates the task that will
\* dispatch "critical".
stop(reason) ==
    /\ live_console' = [live_console EXCEPT !.stop = TRUE]
    /\ critical' = Append(critical, reason)
    /\ stop_calls' = stop_calls + 1

\* Code running on the loop (a command callback) calls goldy.stop().
StopRequest ==
    /\ main = "running"
    /\ phase = "awaiting"
    /\ stop_calls < MaxStops
    /\ stop("stop")
    /\ UNCHANGED <<main, pc, phase, steps, error, extensions_cache, reloads>>
    /\ UNCHANGED <<commandVars, argsVars>>

\* The gateway client dispatches "critical" itself.
Fatal ==
    /\ main = "running"
    /\ phase = "awaiting"
    /\ Len(critical) < MaxStops
    /\ critical' = Append(critical, "fatal")
    /\ UNCHANGED <<main, pc, phase, steps, error, live_console, stop_calls,
                   extensions_cache, reloads>>
    /\ UNCHANGED <<commandVars, argsVars>>

\* The loop runs the oldest dispatch task: wait_for returns if __start_async
\* is waiting in it, otherwise nobody listens and the event is gone.
DispatchCritical ==
    /\ main = "running"
    /\ phase = "awaiting"
    /\ critical # <<>>
    /\ critical' = Tail(critical)
    /\ IF pc = WaitPc
       THEN /\ error' = Some(Head(critical))
            /\ steps' = Append(steps, <<Program[pc].name, "end">>)
            /\ pc' = pc + 1
            /\ phase' = "ready"
       ELSE UNCHANGED <<error, steps, pc, phase>>
    /\ UNCHANGED <<main, live_console, stop_calls, extensions_cache, reloads>>
    /\ UNCHANGED <<commandVars, argsVars>>

\* KeyboardInterrupt reaches the main thread inside run_until_complete: the
\* loop stops running, start() catches it, calls stop() and returns.
Interrupt ==
    /\ main = "running"
    /\ main' = "returned"
    /\ stop("Keyboard interrupt detected!")
    /\ UNCHANGED <<pc, phase, steps, error, extensions_cache, reloads>>
    /\ UNCHANGED <<commandVars, argsVars>>

\* The operator presses Ctrl-C.
KeyboardInterrupt == Interrupt

\* --------------------------------------------------------- live console
\* The console thread is blocked in input(): it runs one command and leaves
\* its loop if __stop was set meanwhile.
ConsoleReads ==
    /\ main = "running"
    /\ live_console.started
    /\ ~live_console.exited

\* utils.cache_lookup: the first entry with this key, or None.
cache_lookup(key, cache) ==
    IF \E i \in DOMAIN cache : cache[i][1] = key
    THEN Some(cache[CHOOSE i \in DOMAIN cache :
                      /\ cache[i][1] = key
                      /\ \A j \in 1..(i - 1) : cache[j][1] # key])
    ELSE NoneOpt

\* do_reload: what it passes to extension_reloader.reload; None reloads
\* every extension.
reload_argument(extension_name) ==
    LET extension == IF extension_name # ""
                     THEN cache_lookup(extension_name, extensions_cache)
                     ELSE NoneOpt
    IN  IF extension # NoneOpt THEN Some(extension[1][2]) ELSE NoneOpt

do_reload(extension_name) ==
    /\ ConsoleReads
    /\ reloads' = [input |-> extension_name, extension |-> reload_argument(extension_name)]
    /\ live_console' = [live_console EXCEPT !.exited = live_console.stop]
    /\ UNCHANGED <<main, pc, phase, steps, critical, error, stop_calls, extensions_cache>>
    /\ UNCHANGED <<commandVars, argsVars>>

\* do_quit (and do_exit, which runs "quit"): _thread.interrupt_main().
do_quit ==
    /\ ConsoleReads
    /\ Interrupt

\* ------------------------------------------ Command: is_child, arguments
\* A property that answers the wrong way round.
is_child_inverted(c) == IF cmds[c].parent_cmd = NoneOpt THEN TRUE ELSE FALSE

\* Command.is_child
is_child(c) == IF cmds[c].parent_cmd = NoneOpt THEN FALSE ELSE TRUE

\* self.params[1:]
ParamsAfterFirst(c) == SubSeq(cmds[c].params, 2, Len(cmds[c].params))

\* Command.any_args_missing
any_args_missing(c, command_executers_args) ==
    IF Len(command_executers_args) = Len(ParamsAfterFirst(c)) THEN TRUE ELSE FALSE

\* The argument tuples a command executer may supply.
ArgTuples == UNION {[1..n -> {"a"}] : n \in 0..MaxArgs}

AnyArgsMissing(c, command_executers_args) ==
    /\ c \in Constructed
    /\ args_check' = [cmd |-> c, args |-> command_executers_args,
                      returned |-> any_args_missing(c, command_executers_args)]
    /\ UNCHANGED <<commandVars, coreVars>>

\* ------------------------------------------------------- specifications
\* A top-level command is constructed.
ConstructSome ==
    \E c \in Cmds, func \in Funcs, name \in {NoneOpt} \cup {Some(n) : n \in Names},
       allow_prefix_cmd \in BOOLEAN, allow_slash_cmd \in BOOLEAN :
       Construct(c, func, name, allow_prefix_cmd, allow_slash_cmd, NoneOpt)

\* Spec: commands are constructed, loaded, unloaded and deleted, each call
\* awaited by its caller, the calls on different commands interleaving.
Next ==
    \/ ConstructSome
    \/ \E c \in Cmds : LoadBegin(c)
    \/ \E c \in Cmds, ok \in BOOLEAN : RemoteCreateDone(c, ok)
    \/ \E c \in Cmds : Unload(c)
    \/ \E c \in Cmds : Delete(c)
    \/ \E c \in Cmds, ok \in BOOLEAN : RemoteDeleteDone(c, ok)

Spec == Init /\ [][Next]_vars

\* SpecDispatch: commands are constructed and loaded, and inbound events of
\* any payload arrive one at a time, each when the loop holds no task.
NextDispatch ==
    \/ ConstructSome
    \/ \E c \in Cmds : calls < DispatchCalls /\ LoadBegin(c)
    \/ \E c \in Cmds, ok \in BOOLEAN : RemoteCreateDone(c, ok)
    \/ \E data \in MessageData \cup InteractionData : tasks = <<>> /\ Deliver(data)
    \/ RunTask
    \/ \E i \in 1..MaxSubs : CallbackReturn(i)
    \/ \E i \in 1..MaxSubs : TaskDone(i)

SpecDispatch == Init /\ [][NextDispatch]_vars

\* The events of SpecInFlight, both from an allowed guild: an interaction,
\* whose content here is the name of the command it was made for, and a
\* message that matches the command "p".
InFlightData ==
    [class : {"INTERACTION_CREATE"}, guild_id : {"g1"}, content : {<<"p">>}]
    \cup [class : {"MESSAGE_CREATE"}, guild_id : {"g1"}, content : {<<"!", "p">>}]

\* SpecInFlight: slash commands are constructed and loaded while events keep
\* arriving, whatever the tasks of earlier events are doing.
NextInFlight ==
    \/ \E c \in Cmds, func \in Funcs, allow_prefix_cmd \in BOOLEAN :
          Construct(c, func, NoneOpt, allow_prefix_cmd, TRUE, NoneOpt)
    \/ \E c \in Cmds : calls < InFlightCalls /\ LoadBegin(c)
    \/ \E c \in Cmds, ok \in BOOLEAN : RemoteCreateDone(c, ok)
    \/ \E data \in InFlightData :
          /\ Len(tasks) + Len(listeners[data.class]) <= MaxTasks
          /\ Deliver(data)
    \/ RunTask
    \/ \E i \in 1..MaxTasks : CallbackReturn(i)
    \/ \E i \in 1..MaxTasks : TaskDone(i)

SpecInFlight == Init /\ [][NextInFlight]_vars

\* SpecUnloadRace: commands with the default flags (prefix and slash allowed)
\* are loaded and unloaded while events arrive and their invocation tasks run
\* in between.
NextUnloadRace ==
    \/ \E c \in Cmds, func \in Funcs :
          Construct(c, func, NoneOpt, TRUE, TRUE, NoneOpt)
    \/ \E c \in Cmds : calls < InFlightCalls /\ LoadBegin(c)
    \/ \E c \in Cmds, ok \in BOOLEAN : RemoteCreateDone(c, ok)
    \/ \E c \in Cmds : calls < InFlightCalls /\ Unload(c)
    \/ \E c \in Cmds, ok \in BOOLEAN : RemoteDeleteDone(c, ok)
    \/ \E data \in InFlightData :
          /\ Len(tasks) + Len(listeners[data.class]) <= MaxTasks
          /\ Deliver(data)
    \/ RunTask
    \/ \E i \in 1..MaxTasks : CallbackReturn(i)
    \/ \E i \in 1..MaxTasks : TaskDone(i)

SpecUnloadRace == Init /\ [][NextUnloadRace]_vars

\* A command is constructed, top-level or as the subcommand of another.
ConstructAny ==
    \E c \in Cmds, func \in Funcs \cup FuncsWithLocals,
       name \in {NoneOpt} \cup {Some(n) : n \in Names},
       allow_prefix_cmd \in BOOLEAN, allow_slash_cmd \in BOOLEAN,
       parent_cmd \in {NoneOpt} \cup {Some(q) : q \in Constructed} :
       Construct(c, func, name, allow_prefix_cmd, allow_slash_cmd, parent_cmd)

\* SpecCommand: commands are constructed and asked about their arguments.
NextCommand ==
    \/ ConstructAny
    \/ \E c \in Cmds, command_executers_args \in ArgTuples :
          AnyArgsMissing(c, command_executers_args)

SpecCommand == Init /\ [][NextCommand]_vars

\* SpecCore: the bot is started once; awaited calls answer or fail, stop
\* requests, fatal errors and interrupts arrive, the operator types console
\* commands.
NextCore ==
    \/ Start
    \/ Call
    \/ \E ok \in BOOLEAN : Resume(ok)
    \/ StopRequest
    \/ Fatal
    \/ DispatchCritical
    \/ KeyboardInterrupt
    \/ \E extension_name \in ReloadInputs : do_reload(extension_name)
    \/ do_quit

SpecCore == Init /\ [][NextCore]_vars

\* ---------------------------------------------------------------- claims
InCache(c) == Contains(commands_cache, <<cmds[c].name, c>>)

Returned(c, kind) ==
    /\ op[c].kind = "idle"
    /\ result[c].kind = kind
    /\ result[c].outcome = "returned"

AfterLoad == [kind |-> "load", outcome |-> "returned"]

Ran(t) == t.pc # "scheduled"
Invoked(t) == t.pc \in {"callback", "returned"}

\* C1: a message delivered to a command's prefix callback invokes the command
\* callback if and only if its guild id is an allowed guild and its text is
\* exactly the guild's prefix followed by the command name.
C1_PrefixDispatchExact ==
    \A i \in DOMAIN tasks :
        (Ran(tasks[i]) /\ tasks[i].cb.type = PREFIX_CMD) =>
            ( Invoked(tasks[i])
              <=> /\ tasks[i].data.guild_id \in AllowedGuildIds
                  /\ tasks[i].data.content
                       = GuildPrefix(tasks[i].data.guild_id) \o cmds[tasks[i].cb.cmd].name )

\* C1 witness: a message with the exact text reached the command callback.
C1_Witness ==
    \E i \in DOMAIN tasks :
        /\ tasks[i].cb.type = PREFIX_CMD
        /\ tasks[i].pc = "callback"

\* C2: an event whose guild id is not an allowed guild, or that carries no
\* guild id, is dropped: no callback and no error in the invocation task.
C2_GuildGuardDropsSilently ==
    \A i \in DOMAIN tasks :
        (Ran(tasks[i]) /\ tasks[i].data.guild_id \notin AllowedGuildIds) =>
            tasks[i].pc = "dropped"

\* C3: after load() of a prefix-only command completes, the bus holds exactly
\* one subscription of the command, on MESSAGE_CREATE, and load() issued no
\* remote create request.
C3_PrefixOnlyLoadOneSubscription ==
    \A c \in Constructed :
        (Returned(c, "load") /\ cmds[c].allow_prefix_cmd /\ ~cmds[c].allow_slash_cmd) =>
            /\ NormalSubs(c) = 1
            /\ SlashSubs(c) = 0
            /\ reqlog[c] = <<>>

\* C4: after unload() completes following a successful load(), no subscription
\* of the command remains, a remote deletion was issued for every recorded
\* handle, and loaded is false.
C4_UnloadUndoesLoad ==
    \A c \in Constructed :
        (Returned(c, "unload") /\ result[c].prev = AfterLoad) =>
            /\ NormalSubs(c) = 0
            /\ SlashSubs(c) = 0
            /\ ~cmds[c].loaded
            /\ cmds[c].allow_slash_cmd =>
                 reqlog[c] = [i \in 1..Len(cmds[c].list_of_application_command_data[1])
                                 |-> DeleteRequest(c, i)]

\* C5: after two successful load() calls in a row the bus holds at most one
\* subscription of the command per event class.
C5_NoDoubleSubscription ==
    \A c \in Constructed :
        (Returned(c, "load") /\ result[c].prev = AfterLoad) =>
            /\ NormalSubs(c) <= 1
            /\ SlashSubs(c) <= 1

\* C6: once delete() has been called on a command and has ended, a lookup of
\* the command's name finds nothing: no entry of the registry carries it.
C6_DeletedNameNotFound ==
    \A c \in Constructed :
        (op[c].kind = "idle" /\ result[c].kind = "delete") =>
            ~\E i \in DOMAIN commands_cache : commands_cache[i][1] = cmds[c].name

\* C7: a load() that a failing remote create request ends leaves the command
\* as load() found it (loaded, the recorded handles, its subscriptions), and
\* so does a load() still waiting for its create requests.
C7_FailedLoadLeavesStateUnchanged ==
    \A c \in Constructed :
        /\ (op[c].kind = "idle" /\ result[c].kind = "load"
              /\ result[c].outcome = "RemoteError") => Before(c) = result[c].before
        /\ op[c].kind = "load" => Before(c) = op[c].before

\* C7 witness: the request for the second guild failed after the first succeeded.
C7_Witness ==
    \E c \in Constructed :
        /\ op[c].kind = "idle"
        /\ result[c].kind = "load"
        /\ result[c].outcome = "RemoteError"
        /\ Len(reqlog[c]) = 2
        /\ ~cmds[c].loaded

\* C8 (as stated): a delete() called after a delete() that
\* returned raises no error.
C8_SecondDeleteSilent ==
    \A c \in Constructed :
        (op[c].kind = "idle" /\ result[c].kind = "delete"
           /\ result[c].prev = [kind |-> "delete", outcome |-> "returned"]) =>
            result[c].outcome = "returned"

\* C8 (amended): every step of a delete() on a command whose pair is not in
\* the registry leaves the registry unchanged, and the call ends by raising.
C8_DeleteOfAbsentRaises ==
    [][ \A c \in Constructed :
          ( /\ ~InCache(c)
            /\ \/ Delete(c)
               \/ op[c].kind = "delete" /\ \E ok \in BOOLEAN : RemoteDeleteDone(c, ok) )
          => /\ commands_cache' = commands_cache
             /\ op'[c].kind = "idle" =>
                  /\ result'[c].kind = "delete"
                  /\ result'[c].outcome # "returned" ]_vars

\* C8 witness: the registry's remove raised on the missing pair.
C8_Witness ==
    \E c \in Constructed :
        /\ ~InCache(c)
        /\ result[c].kind = "delete"
        /\ result[c].outcome = "ValueError: cache"

\* C9: a command that delete() removed from the registry is never loaded again.
C9_DeleteIsTerminal ==
    \A c \in Constructed : ~InCache(c) => ~cmds[c].loaded

\* C10: no two entries of the registry carry the same name.
C10_RegistryNamesUnique ==
    \A i, j \in DOMAIN commands_cache :
        i # j => commands_cache[i][1] # commands_cache[j][1]

IsPrefix(a, b) == Len(a) <= Len(b) /\ a = SubSeq(b, 1, Len(a))

Begun(name) == Contains(steps, <<name, "begin">>)
Completed(name) == Contains(steps, <<name, "end">>)

StartupStepNames ==
    {"shard_manager.connect", "pre_setup", "guilds.setup", "extension_loader.load",
     "command_loader.load", "live_console.start", "wait_for critical"}

IsStartupEvent(e) == e[1] \in StartupStepNames

ShutdownStepNames ==
    {"presence.change", "http_client.close", "shard_manager.close",
     "database.client.close", "async_loop.stop"}

IsShutdownEvent(e) == e[1] \in ShutdownStepNames

C12_ShutdownInOrder ==
    /\ IsPrefix(SelectSeq(steps, IsShutdownEvent),
                << <<"presence.change", "begin">>, <<"presence.change", "end">>,
                   <<"http_client.close", "begin">>, <<"http_client.close", "end">>,
                   <<"shard_manager.close", "begin">>, <<"shard_manager.close", "end">>,
                   <<"database.client.close", "begin">>, <<"database.client.close", "end">>,
                   <<"async_loop.stop", "begin">>, <<"async_loop.stop", "end">> >>)
    /\ (\E name \in ShutdownStepNames : Begun(name)) =>
          /\ error # NoneOpt
          /\ Completed("wait_for critical")

\* C12 witness: the shutdown ran to its end.
C12_Witness ==
    /\ Completed("async_loop.stop")
    /\ main = "returned"

\* C13: once start() has returned after a call of stop() on the started bot
\* (startup had reached the wait for the signal), the critical signal has been
\* received and the shutdown sequence has run through stopping the loop.
C13_StopLeadsToShutdown ==
    (main = "returned" /\ stop_calls > 0 /\ Begun("wait_for critical")) =>
        /\ error # NoneOpt
        /\ Completed("async_loop.stop")

\* The declared parameters of the callback without self and without the
\* first (context) parameter.
DeclaredArgs(c) == cmds[c].params_amount - 1

\* C14: any_args_missing returns false if and only if the number of supplied
\* arguments equals the number of declared parameters, self and the context
\* parameter not counted.
C14_AnyArgsMissingFalseIffEqual ==
    args_check.cmd \in Constructed =>
        ( args_check.returned = FALSE
          <=> Len(args_check.args) = DeclaredArgs(args_check.cmd) )

\* C15: for every command, is_child is true if and only if parent_cmd is not None.
C15_IsChildIffParent ==
    \A c \in Constructed : is_child(c) <=> cmds[c].parent_cmd # NoneOpt

\* C15 witness: a command with a parent exists, next to one without.
C15_Witness ==
    \E c, q \in Constructed :
        /\ cmds[c].parent_cmd = Some(q)
        /\ cmds[q].parent_cmd = NoneOpt
        /\ is_child(c)
        /\ ~is_child(q)

BothFlags(c) == cmds[c].allow_prefix_cmd /\ cmds[c].allow_slash_cmd

\* C16: a load() of a command with both flags that found it not loaded and
\* returned has issued one create request per allowed guild in the order of
\* the allowed guilds, recorded one handle per guild in that order, added one
\* interaction-create and one message-create subscription and set loaded;
\* until the last request has succeeded it has added no subscription and has
\* not set loaded.
C16_LoadBothRegistersInOrder ==
    \A c \in Constructed :
        /\ (Returned(c, "load") /\ BothFlags(c) /\ ~result[c].before.loaded) =>
              /\ reqlog[c] = [i \in 1..Len(config_allowed_guilds) |->
                                <<"create", config_allowed_guilds[i][1], cmds[c].name>>]
              /\ cmds[c].list_of_application_command_data =
                    Some([i \in 1..Len(config_allowed_guilds) |->
                            << config_allowed_guilds[i][1],
                               [id |-> <<config_allowed_guilds[i][1], cmds[c].name>>] >>])
              /\ SlashSubs(c) = result[c].before.slash_subs + 1
              /\ NormalSubs(c) = result[c].before.normal_subs + 1
              /\ cmds[c].loaded
        /\ (op[c].kind = "load" /\ BothFlags(c) /\ ~op[c].before.loaded) =>
              /\ SlashSubs(c) = op[c].before.slash_subs
              /\ NormalSubs(c) = op[c].before.normal_subs
              /\ ~cmds[c].loaded
              /\ IsPrefix(reqlog[c], [i \in 1..Len(config_allowed_guilds) |->
                                <<"create", config_allowed_guilds[i][1], cmds[c].name>>])

\* C16 witness: such a load returned after a request for each of two guilds.
C16_Witness ==
    \E c \in Constructed :
        /\ Returned(c, "load")
        /\ BothFlags(c)
        /\ ~result[c].before.loaded
        /\ Len(reqlog[c]) = 2
        /\ SlashSubs(c) = 1
        /\ NormalSubs(c) = 1

\* C17: an unload() of a loaded command that a failing remote deletion ends
\* leaves the command as it found it: loaded still true, its subscriptions
\* still registered, the recorded handles unchanged.
C17_FailedUnloadNoRollback ==
    \A c \in Constructed :
        (op[c].kind = "idle" /\ result[c].kind = "unload"
           /\ result[c].outcome = "RemoteError" /\ result[c].before.loaded) =>
            /\ cmds[c].loaded
            /\ cmds[c].list_of_application_command_data = result[c].before.data
            /\ SlashSubs(c) = result[c].before.slash_subs
            /\ NormalSubs(c) = result[c].before.normal_subs
            /\ SlashSubs(c) >= 1
            /\ cmds[c].allow_prefix_cmd => NormalSubs(c) >= 1

\* C17 witness: the second deletion failed; the first handle is still
\* recorded although its command is gone from Discord.
C17_Witness ==
    \E c \in Constructed :
        /\ op[c].kind = "idle"
        /\ result[c].kind = "unload"
        /\ result[c].outcome = "RemoteError"
        /\ result[c].before.loaded
        /\ Len(reqlog[c]) = 2
        /\ cmds[c].list_of_application_command_data[1][1][2].id \notin remote

\* C18: every interaction from an allowed guild that was delivered to a slash
\* callback reaches the command callback, whatever command it names, and the
\* delivery of one interaction starts an invocation of every command that
\* holds a slash subscription.
C18_SlashDispatchUnconditional ==
    /\ [](\A i \in DOMAIN tasks :
            ( /\ Ran(tasks[i])
              /\ tasks[i].cb.type = SLASH_CMD
              /\ tasks[i].data.guild_id \in AllowedGuildIds ) => Invoked(tasks[i]))
    /\ [][ \A data \in InFlightData :
             (data.class = "INTERACTION_CREATE" /\ Deliver(data)) =>
                 \A c \in Constructed :
                     SlashSubs(c) >= 1 =>
                         \E i \in (DOMAIN tasks') \ (DOMAIN tasks) :
                             /\ tasks'[i].cb = slash_callback(c)
                             /\ tasks'[i].data = data ]_vars

\* C18 witness: one interaction has reached the callbacks of two commands,
\* one of which it does not name.
C18_Witness ==
    \E i, j \in DOMAIN tasks :
        /\ tasks[i].cb.cmd # tasks[j].cb.cmd
        /\ tasks[i].cb.type = SLASH_CMD
        /\ tasks[j].cb.type = SLASH_CMD
        /\ tasks[i].data = tasks[j].data
        /\ tasks[i].data.content # cmds[tasks[i].cb.cmd].name
        /\ Invoked(tasks[i])
        /\ Invoked(tasks[j])

\* C19: the delivery of an event leaves every task the loop holds as it is
\* and adds one task per subscribed callback, none of which has started: the
\* listener returns before any command callback runs.
C19_DeliverSchedulesAndReturns ==
    [][ \A data \in InFlightData :
          Deliver(data) =>
              /\ Len(tasks') = Len(tasks) + Len(listeners[data.class])
              /\ SubSeq(tasks', 1, Len(tasks)) = tasks
              /\ \A i \in (DOMAIN tasks') \ (DOMAIN tasks) :
                    /\ tasks'[i].pc = "scheduled"
                    /\ tasks'[i].data = data ]_vars

\* C19 witness: two invocations of one command are inside its callback at once.
C19_Witness ==
    \E i, j \in DOMAIN tasks :
        /\ i # j
        /\ tasks[i].cb.cmd = tasks[j].cb.cmd
        /\ tasks[i].pc = "callback"
        /\ tasks[j].pc = "callback"

Registered(name) == \E i \in DOMAIN extensions_cache : extensions_cache[i][1] = name

\* C20: the console's reload passes None, which reloads everything, only for
\* an empty argument; for the name of a registered extension it passes that
\* extension; a name no extension is registered under does not reload
\* everything.
C20_ReloadByName ==
    reloads.input # "none" =>
        /\ reloads.extension = NoneOpt => reloads.input = ""
        /\ (reloads.input # "" /\ Registered(reloads.input)) =>
              \E i \in DOMAIN extensions_cache :
                  /\ extensions_cache[i][1] = reloads.input
                  /\ reloads.extension = Some(extensions_cache[i][2])

Quiescent == \A c \in Cmds : op[c].kind = "idle"

\* The handles command c has recorded.
RecordedIds(c) ==
    LET data == cmds[c].list_of_application_command_data
    IN  IF data = NoneOpt THEN {}
        ELSE {data[1][i][2].id : i \in DOMAIN data[1]}

\* C21: when no load() or unload() is in progress, every guild command that
\* exists on Discord is in the recorded handle list of a command of that name.
C21_NoOrphanedRegistrations ==
    Quiescent =>
        \A id \in remote :
            \E c \in Constructed :
                /\ cmds[c].name = id[2]
                /\ id \in RecordedIds(c)

\* C22: whenever an invocation task reaches the command callback, the
\* command is loaded.
C22_CallbackOnlyWhileLoaded ==
    [][ RunTask =>
          LET i == CHOOSE k \in Scheduled : \A j \in Scheduled : k <= j
          IN  tasks'[i].pc = "callback" => cmds[tasks[i].cb.cmd].loaded ]_vars

====
